---- MODULE Spec2Model ----
(***************************************************************************)
(* Model of the module scaffolder (src/main.py, src/module.py).            *)
(*                                                                         *)
(* The program state is the working directory (the set of directories and  *)
(* the files with their contents, log.txt among them), the process's       *)
(* standard output and exit status, and the position of main() in its      *)
(* sequential run over the module names.  A text file is the sequence of   *)
(* its lines; a path is the string the code builds (segments joined by     *)
(* "/"); a timestamp is the decimal rendering of a clock that advances at  *)
(* every datetime.now().                                                   *)
(***************************************************************************)
EXTENDS Integers, Sequences, FiniteSets, TLC

\* ------------------------------------------------------------------ bounds
\* Longest list of module names on a command line.
MaxArgs == 2
\* Number of successive invocations of the program on the same directory.
MaxRuns == 2

\* ------------------------------------------------------------- the inputs
\* Module names given on the command line: a plain name, a name with an
\* upper-case letter after the first, a name that is a template directory
\* of another module, one that is a template file of another module, and
\* the name of the log file.
Names == {"a", "bB", "a/data", "a/LICENSE", "log.txt"}

\* argv[0] values.
Progs == {"main.py", "./scaffold"}

SeqsUpTo(S, n) == UNION {[1..k -> S] : k \in 0..n}

\* sys.argv: the program under either name without arguments, or under its
\* own name with up to MaxArgs module names.
CommandLines ==
    {<<p>> : p \in Progs} \cup {<<"main.py">> \o names : names \in SeqsUpTo(Names, MaxArgs)}

\* --------------------------------------------------------------- templates
\* dir_structure["directories"]: the keys in insertion order.
Directories == <<"data", "docs", "assets", "src", "tests", "scripts", "tools">>

\* dir_structure["directories"][d].
SubDirectories ==
    [data    |-> <<"raw", "processed", "output">>,
     docs    |-> <<"api", "design", "notes", "reports">>,
     assets  |-> <<"images", "text">>,
     src     |-> <<"components", "models", "utils", "include">>,
     tests   |-> <<"unit", "integration", "e2e">>,
     scripts |-> <<"js", "py">>,
     tools   |-> <<"build", "deploy">>]

\* dir_structure["files"].
Files == <<"README.md", "CONTRIBUTING.md", "LICENSE", "package.json", ".gitignore">>

LogFile == "log.txt"

\* ------------------------------------------------------------------- paths
\* The proper ancestors of a relative path: what makedirs creates on the way
\* and what must be a directory for an entry to be created at p.
Ancestors(p) ==
    {SubSeq(p, 1, j - 1) : j \in {k \in 1..Len(p) : SubSeq(p, k, k) = "/"}}

\* f'{a}/{b}'
Join(a, b) == a \o "/" \o b

\* ------------------------------------------------------------ str.capitalize
LowerCase == "abcdefghijklmnopqrstuvwxyz"
UpperCase == "ABCDEFGHIJKLMNOPQRSTUVWXYZ"

ToUpper(c) ==
    IF \E k \in 1..Len(LowerCase) : SubSeq(LowerCase, k, k) = c
    THEN LET k == CHOOSE k \in 1..Len(LowerCase) : SubSeq(LowerCase, k, k) = c
         IN  SubSeq(UpperCase, k, k)
    ELSE c

ToLower(c) ==
    IF \E k \in 1..Len(UpperCase) : SubSeq(UpperCase, k, k) = c
    THEN LET k == CHOOSE k \in 1..Len(UpperCase) : SubSeq(UpperCase, k, k) = c
         IN  SubSeq(LowerCase, k, k)
    ELSE c

RECURSIVE LowerAll(_)
LowerAll(s) ==
    IF Len(s) = 0 THEN "" ELSE ToLower(SubSeq(s, 1, 1)) \o LowerAll(SubSeq(s, 2, Len(s)))

\* str.capitalize(): first character upper-cased, all the others lower-cased.
Capitalize(s) ==
    IF Len(s) = 0 THEN "" ELSE ToUpper(SubSeq(s, 1, 1)) \o LowerAll(SubSeq(s, 2, Len(s)))

\* ------------------------------------------------------------------- state
VARIABLES
    argv,          \* sys.argv of the current invocation
    dirs,          \* the directories of the working directory (relative paths)
    files,         \* the files: path -> sequence of lines
    clock,         \* the value the next datetime.now() returns
    stdout,        \* the lines printed by the current invocation
    pc,            \* "start" | "loop" | "return" | "exited"
    exitStatus,    \* the process exit status once pc = "exited" (-1 before)
    module_names,  \* dir_structure["module_names"]
    idx,           \* create_modules: index of the module being processed
    step,          \* create_modules: "module" | "subdirs" | "files"
    run,           \* number of the current invocation
    \* history, read by the properties only
    trace,         \* the steps attempted by the current invocation, in order
    faulted,       \* an exception was raised in the current invocation
    prevFaulted,   \* ... in the previous invocation
    pre,           \* dirs and files before the last attempted step
    start,         \* dirs and files when the current invocation started
    stamped        \* module -> datetime.now() of its last completed create_files

vars == <<argv, dirs, files, clock, stdout, pc, exitStatus, module_names, idx,
          step, run, trace, faulted, prevFaulted, pre, start, stamped>>

\* ------------------------------------------------------- os / builtins used
\* The value threaded through the calls of one step: the file system, the
\* clock, the last datetime.now() read, whether an exception is propagating
\* and the value returned.
State == [dirs |-> dirs, files |-> files, clock |-> clock, now |-> 0,
          fault |-> FALSE, ret |-> FALSE]

Raise(st) == [st EXCEPT !.fault = TRUE]

\* os.path.exists(p)
exists(st, p) == p \in st.dirs \/ p \in DOMAIN st.files

\* Mutant: os.makedirs(p) without exist_ok=True raises when p exists.
makedirs_NoExistOk(st, p) ==
    IF p \in st.dirs \/ p \in DOMAIN st.files
          \/ \E a \in Ancestors(p) : a \in DOMAIN st.files
    THEN Raise(st)
    ELSE [st EXCEPT !.dirs = @ \cup {p} \cup Ancestors(p)]

\* os.makedirs(p, exist_ok=True): nothing when p is a directory; raises
\* FileExistsError when p is a file and NotADirectoryError when a segment on
\* the way is a file (nothing has been created then: the file is the deepest
\* existing ancestor); otherwise creates p and its missing ancestors.
makedirs(st, p) ==
    IF p \in st.dirs THEN st
    ELSE IF p \in DOMAIN st.files \/ \E a \in Ancestors(p) : a \in DOMAIN st.files
         THEN Raise(st)
         ELSE [st EXCEPT !.dirs = @ \cup {p} \cup Ancestors(p)]

\* with open(p, 'w') as f: f.write(text): raises IsADirectoryError when p is
\* a directory and FileNotFoundError / NotADirectoryError when its parent is
\* no directory; otherwise p holds exactly text.
open_w(st, p, text) ==
    IF p \in st.dirs \/ ~(Ancestors(p) \subseteq st.dirs) THEN Raise(st)
    ELSE [st EXCEPT !.files = (p :> text) @@ @]

\* with open(p, 'a') as f: f.write(line + '\n')
open_a(st, p, line) ==
    IF p \in st.dirs \/ ~(Ancestors(p) \subseteq st.dirs) THEN Raise(st)
    ELSE [st EXCEPT !.files =
            (p :> Append(IF p \in DOMAIN @ THEN @[p] ELSE <<>>, line)) @@ @]

\* datetime.now(): the reading is kept in st.now
Now(st) == [st EXCEPT !.now = st.clock, !.clock = @ + 1]

\* f'{datetime.now()}'
Str(t) == ToString(t)

\* ------------------------------------------------------------ class Module
\* Mutant: the existence check is left out.
create_module_Unchecked(st, module_name) ==
    LET m == makedirs(st, module_name)
    IN  IF m.fault THEN m ELSE [m EXCEPT !.ret = TRUE]

create_module(st, module_name) ==
    IF ~exists(st, module_name)
    THEN LET m == makedirs(st, module_name)
         IN  IF m.fault THEN m ELSE [m EXCEPT !.ret = TRUE]
    ELSE [st EXCEPT !.ret = FALSE]

\* The makedirs calls of create_subdirectories, in the order of the loops.
RECURSIVE SubTargets(_, _, _)
SubTargets(module_name, directory, subs) ==
    IF subs = <<>> THEN <<>>
    ELSE <<Join(Join(module_name, directory), Head(subs))>>
         \o SubTargets(module_name, directory, Tail(subs))

RECURSIVE Targets(_, _)
Targets(module_name, directories) ==
    IF directories = <<>> THEN <<>>
    ELSE <<Join(module_name, Head(directories))>>
         \o SubTargets(module_name, Head(directories), SubDirectories[Head(directories)])
         \o Targets(module_name, Tail(directories))

RECURSIVE MakeAll(_, _)
MakeAll(st, targets) ==
    IF targets = <<>> \/ st.fault THEN st
    ELSE MakeAll(makedirs(st, Head(targets)), Tail(targets))

\* Mutant: the inner loop is left out.
create_subdirectories_TopOnly(st, module_name) ==
    LET m == MakeAll(st, [k \in 1..Len(Directories) |-> Join(module_name, Directories[k])])
    IN  IF m.fault THEN m ELSE [m EXCEPT !.ret = TRUE]

create_subdirectories(st, module_name) ==
    LET m == MakeAll(st, Targets(module_name, Directories))
    IN  IF m.fault THEN m ELSE [m EXCEPT !.ret = TRUE]

\* The text written to the first file of the template.
ReadmeText(module_name, t) ==
    <<"# " \o Capitalize(module_name), "Created -> " \o Str(t), "Author -> ", "",
      "## Description", "">>

\* Mutant: an existing file is left alone, as an existing directory is.
WriteFile_SkipExisting(st, module_name, file) ==
    IF Join(module_name, file) \in DOMAIN st.files THEN st
    ELSE IF file = Files[1]
    THEN LET o == open_w(st, Join(module_name, file), <<>>)
         IN  IF o.fault THEN o
             ELSE LET n == Now(o)
                  IN  open_w(n, Join(module_name, file), ReadmeText(module_name, n.now))
    ELSE open_w(st, Join(module_name, file), <<>>)

\* Mutant: the files are created in the current directory.
WriteFile_InCwd(st, module_name, file) ==
    IF file = Files[1]
    THEN LET o == open_w(st, file, <<>>)
         IN  IF o.fault THEN o
             ELSE LET n == Now(o)
                  IN  open_w(n, file, ReadmeText(module_name, n.now))
    ELSE open_w(st, file, <<>>)

\* One iteration of the loop of create_files; the f-string (and with it
\* datetime.now()) is evaluated after the file has been opened.
WriteFile(st, module_name, file) ==
    IF file = Files[1]
    THEN LET o == open_w(st, Join(module_name, file), <<>>)
         IN  IF o.fault THEN o
             ELSE LET n == Now(o)
                  IN  open_w(n, Join(module_name, file), ReadmeText(module_name, n.now))
    ELSE open_w(st, Join(module_name, file), <<>>)

RECURSIVE WriteAll(_, _, _)
WriteAll(st, module_name, fs) ==
    IF fs = <<>> \/ st.fault THEN st
    ELSE WriteAll(WriteFile(st, module_name, Head(fs)), module_name, Tail(fs))

create_files(st, module_name) ==
    IF Len(Files) = 0 THEN [st EXCEPT !.ret = FALSE]
    ELSE LET w == WriteAll(st, module_name, Files)
         IN  IF w.fault THEN w ELSE [w EXCEPT !.ret = TRUE]

\* Mutant: log.txt is opened with 'w'.
log_Truncating(st, message) ==
    LET o == open_w(st, LogFile, <<>>)
    IN  IF o.fault THEN o
        ELSE LET n == Now(st)
             IN  open_w(n, LogFile, <<Str(n.now) \o "\t" \o message>>)

\* Module.log
log(st, message) ==
    LET o == open_a(st, LogFile, "")
    IN  IF o.fault THEN o
        ELSE LET n == Now(st)
             IN  open_a(n, LogFile, Str(n.now) \o "\t" \o message)

\* 'succeeded' if <call> else 'failed'
Outcome(ret) == IF ret THEN "succeeded" ELSE "failed"

\* The three messages of create_modules.
Message(s, module, ret) ==
    CASE s = "module"  -> "Creating module " \o module \o " has " \o Outcome(ret)
      [] s = "subdirs" -> "Creating subdirectories for " \o module \o " has " \o Outcome(ret)
      [] s = "files"   -> "Creating files for " \o module \o " has " \o Outcome(ret)

\* The call of one statement of the loop body.
Call(s, st, module) ==
    CASE s = "module"  -> create_module(st, module)
      [] s = "subdirs" -> create_subdirectories(st, module)
      [] s = "files"   -> create_files(st, module)

\* Mutant: a module whose step returned false is abandoned.
NextPos_SkipOnFalse(i, s, ret, n) ==
    IF s = "files" \/ ~ret
    THEN IF i < n
         THEN [pc |-> "loop", idx |-> i + 1, step |-> "module"]
         ELSE [pc |-> "return", idx |-> i, step |-> "module"]
    ELSE [pc |-> "loop", idx |-> i, step |-> IF s = "module" THEN "subdirs" ELSE "files"]

\* create_modules: where control goes after a statement of the loop body
\* that returned ret: the next statement, the next module, or back to main.
NextPos(i, s, ret, n) ==
    CASE s = "module"  -> [pc |-> "loop", idx |-> i, step |-> "subdirs"]
      [] s = "subdirs" -> [pc |-> "loop", idx |-> i, step |-> "files"]
      [] s = "files"   -> IF i < n
                          THEN [pc |-> "loop", idx |-> i + 1, step |-> "module"]
                          ELSE [pc |-> "return", idx |-> i, step |-> "module"]

\* Mutant: the loop body catches the exception and goes on.
Control_Swallow(fault, nxt) ==
    [pc |-> nxt.pc, idx |-> nxt.idx, step |-> nxt.step, exit |-> -1]

\* Neither create_modules nor main has a try: an exception raised in a step
\* or in log leaves both, and the interpreter ends the process with status 1.
\* Without an exception control goes where the loop sends it.
Control(fault, nxt) ==
    IF fault THEN [pc |-> "exited", idx |-> idx, step |-> step, exit |-> 1]
    ELSE [pc |-> nxt.pc, idx |-> nxt.idx, step |-> nxt.step, exit |-> -1]

\* Mutant: off by one in the argument count.
UsageError_OffByOne(a) == Len(a) < 1

\* main: len(argv) < 2
UsageError(a) == Len(a) < 2

\* Mutant: a step that reported "failed" makes the process fail.
ReturnStatus_Aggregate(a) ==
    IF \E k \in 1..Len(trace) : trace[k].outcome = "failed" THEN 1 ELSE 0

\* The status of a process whose main() returned.
ReturnStatus(a) == 0

\* ----------------------------------------------------------------- actions
\* One statement of the loop body of create_modules: the call, then log().
Statement(s) ==
    /\ \E r \in {Call(s, State, module_names[idx])} :
       \E l \in {IF r.fault THEN r ELSE log(r, Message(s, module_names[idx], r.ret))} :
       \E c \in {Control(l.fault, NextPos(idx, s, r.ret, Len(module_names)))} :
           /\ dirs' = l.dirs
           /\ files' = l.files
           /\ clock' = l.clock
           /\ pc' = c.pc
           /\ idx' = c.idx
           /\ step' = c.step
           /\ exitStatus' = c.exit
           /\ faulted' = l.fault
           /\ trace' = Append(trace,
                  [module |-> module_names[idx], step |-> s,
                   outcome |-> IF r.fault THEN "raised" ELSE Outcome(r.ret),
                   reported |-> ~l.fault,
                   stamp |-> IF l.fault THEN 0 ELSE l.now])
           /\ stamped' = IF s = "files" /\ ~r.fault /\ r.ret
                         THEN [stamped EXCEPT ![module_names[idx]] = r.now]
                         ELSE stamped
    /\ pre' = [dirs |-> dirs, files |-> files]
    /\ UNCHANGED <<argv, stdout, module_names, run, prevFaulted, start>>

\* main() up to the call of create_modules.
MainStart ==
    /\ pc = "start"
    /\ IF UsageError(argv)
       THEN /\ stdout' = stdout \o <<"Start", "Usage: " \o argv[1] \o " <module_names>",
                                     "Exiting...">>
            /\ pc' = "exited"
            /\ exitStatus' = 1
            /\ UNCHANGED <<module_names, idx, step>>
       ELSE /\ stdout' = stdout \o <<"Start", "Creating module(s)...">>
            /\ module_names' = Tail(argv)
            /\ idx' = 1
            /\ step' = "module"
            /\ pc' = IF Len(Tail(argv)) = 0 THEN "return" ELSE "loop"
            /\ UNCHANGED exitStatus
    /\ UNCHANGED <<argv, dirs, files, clock, run, trace, faulted, prevFaulted, pre,
                   start, stamped>>

StepCreateModule ==
    /\ pc = "loop"
    /\ step = "module"
    /\ Statement("module")

StepCreateSubdirectories ==
    /\ pc = "loop"
    /\ step = "subdirs"
    /\ Statement("subdirs")

StepCreateFiles ==
    /\ pc = "loop"
    /\ step = "files"
    /\ Statement("files")

\* create_modules has returned: main prints the banner and returns.
MainReturn ==
    /\ pc = "return"
    /\ stdout' = Append(stdout, "Finished")
    /\ pc' = "exited"
    /\ exitStatus' = ReturnStatus(argv)
    /\ UNCHANGED <<argv, dirs, files, clock, module_names, idx, step, run, trace,
                   faulted, prevFaulted, pre, start, stamped>>

\* The same command line is run again in the same working directory.
Rerun ==
    /\ pc = "exited"
    /\ run < MaxRuns
    /\ run' = run + 1
    /\ pc' = "start"
    /\ exitStatus' = -1
    /\ stdout' = <<>>
    /\ module_names' = <<>>
    /\ idx' = 1
    /\ step' = "module"
    /\ trace' = <<>>
    /\ prevFaulted' = faulted
    /\ faulted' = FALSE
    /\ start' = [dirs |-> dirs, files |-> files]
    /\ pre' = [dirs |-> dirs, files |-> files]
    /\ UNCHANGED <<argv, dirs, files, clock, stamped>>

\* ------------------------------------------------ the working directory
\* What module "a" may look like before the first run.
TreesOfA ==
    { [dirs |-> {}, files |-> <<>>],
      [dirs |-> {}, files |-> ("a" :> <<"x">>)],
      [dirs |-> {"a"}, files |-> <<>>],
      [dirs |-> {"a", "a/docs", "a/docs/api"}, files |-> <<>>],
      [dirs |-> {"a"}, files |-> ("a/data" :> <<"x">>)],
      [dirs |-> {"a", "a/LICENSE"}, files |-> <<>>],
      [dirs |-> {"a"}, files |-> ("a/README.md" :> <<"# Mine">>) @@ ("a/LICENSE" :> <<"MIT">>)] }

\* What log.txt may be before the first run: absent, a log, a directory.
LogsBefore ==
    { [dirs |-> {}, files |-> <<>>],
      [dirs |-> {}, files |-> (LogFile :> <<"0\told line">>)],
      [dirs |-> {LogFile}, files |-> <<>>] }

InitialFileSystems ==
    { [dirs |-> t.dirs \cup l.dirs, files |-> t.files @@ l.files] :
        t \in TreesOfA, l \in LogsBefore }

Init ==
    /\ argv \in CommandLines
    /\ \E fs \in InitialFileSystems :
          /\ dirs = fs.dirs
          /\ files = fs.files
          /\ start = fs
          /\ pre = fs
    /\ clock = 1
    /\ stdout = <<>>
    /\ pc = "start"
    /\ exitStatus = -1
    /\ module_names = <<>>
    /\ idx = 1
    /\ step = "module"
    /\ run = 1
    /\ trace = <<>>
    /\ faulted = FALSE
    /\ prevFaulted = FALSE
    /\ stamped = [m \in Names |-> 0]

Next ==
    \/ MainStart
    \/ StepCreateModule
    \/ StepCreateSubdirectories
    \/ StepCreateFiles
    \/ MainReturn
    \/ Rerun

Spec == Init /\ [][Next]_vars

\* ------------------------------------------------------------- properties
\* The layout every module gets, relative to its root.
ExpectedDirs ==
    {"data", "data/raw", "data/processed", "data/output",
     "docs", "docs/api", "docs/design", "docs/notes", "docs/reports",
     "assets", "assets/images", "assets/text",
     "src", "src/components", "src/models", "src/utils", "src/include",
     "tests", "tests/unit", "tests/integration", "tests/e2e",
     "scripts", "scripts/js", "scripts/py",
     "tools", "tools/build", "tools/deploy"}

ExpectedTopDirs == {"data", "docs", "assets", "src", "tests", "scripts", "tools"}

ExpectedFiles == {"README.md", "CONTRIBUTING.md", "LICENSE", "package.json", ".gitignore"}

EmptyFiles == {"CONTRIBUTING.md", "LICENSE", "package.json", ".gitignore"}

\* The heading of each module's README.md.
ExpectedHeading ==
    [m \in Names |->
        CASE m = "a"       -> "# A"
          [] m = "bB"      -> "# Bb"
          [] m = "a/data"  -> "# A/data"
          [] m = "a/LICENSE" -> "# A/license"
          [] m = "log.txt" -> "# Log.txt"]

Range(s) == {s[k] : k \in 1..Len(s)}

Last == trace[Len(trace)]

LastIs(s) == trace # <<>> /\ Last.step = s

\* A file system without its log file.
FilesBut(f) == [p \in DOMAIN f \ {LogFile} |-> f[p]]

LogOf(f) == IF LogFile \in DOMAIN f THEN f[LogFile] ELSE <<>>

\* p lies inside the tree rooted at m.
IsBelow(p, m) == Len(p) > Len(m) + 1 /\ SubSeq(p, 1, Len(m) + 1) = m \o "/"

\* All three steps of module m have run in this invocation.
Processed(m) ==
    \E k \in 1..Len(trace) :
        trace[k].module = m /\ trace[k].step = "files" /\ trace[k].outcome # "raised"

FreshAtStart(m) == m \notin start.dirs /\ m \notin DOMAIN start.files

C2_AsStated ==
    LastIs("module") =>
        IF Last.module \in pre.dirs \/ Last.module \in DOMAIN pre.files
        THEN /\ Last.outcome = "failed"
             /\ dirs = pre.dirs
             /\ FilesBut(files) = FilesBut(pre.files)
        ELSE /\ Last.outcome = "succeeded"
             /\ Last.module \in dirs
             /\ Ancestors(Last.module) \subseteq dirs

\* C2, amended: create_module(M) returns false and changes nothing when an
\* entry exists at M; when none exists and no parent segment of M is a file
\* it creates M with its missing parents, and nothing else, and returns
\* true; when a parent segment is a file it raises and changes nothing.
C2_CreateModule ==
    LastIs("module") =>
        IF Last.module \in pre.dirs \/ Last.module \in DOMAIN pre.files
        THEN /\ Last.outcome = "failed"
             /\ dirs = pre.dirs
             /\ FilesBut(files) = FilesBut(pre.files)
        ELSE IF \E a \in Ancestors(Last.module) : a \in DOMAIN pre.files
        THEN /\ Last.outcome = "raised"
             /\ dirs = pre.dirs
             /\ files = pre.files
        ELSE /\ Last.outcome = "succeeded"
             /\ dirs = pre.dirs \cup {Last.module} \cup Ancestors(Last.module)
             /\ FilesBut(files) = FilesBut(pre.files)

C2_Witness ==
    /\ LastIs("module")
    /\ Last.outcome = "failed"
    /\ Last.module \in DOMAIN pre.files
    /\ \E k \in 1..Len(trace) :
          /\ trace[k].step = "module"
          /\ trace[k].outcome = "succeeded"
          /\ Ancestors(trace[k].module) # {}

\* C3 as stated: two runs in succession on the same names never raise, and
\* the directories after the second run are those after the first.
C3_AsStated ==
    run >= 2 /\ pc = "exited" /\ Len(argv) >= 2 =>
        ~prevFaulted /\ ~faulted /\ dirs = start.dirs

\* C3, amended: when the scaffolder is run again on the same names, the
\* second run raises exactly when the first did, and it creates no directory:
\* the directories after the second run are those after the first.
C3_SecondRunFixedPoint ==
    run >= 2 /\ Len(argv) >= 2 =>
        /\ dirs = start.dirs
        /\ faulted => prevFaulted
        /\ pc = "exited" => (faulted <=> prevFaulted)

C3_Witness ==
    /\ run >= 2
    /\ pc = "exited"
    /\ ~faulted
    /\ Len(trace) = 6
    /\ Cardinality(dirs) > 50

\* C4: once create_files has run to its end for a module, whatever the five
\* files held before, the four files after the first are empty and the first
\* holds the text of the most recent run (heading, that run's timestamp,
\* empty Author line, Description heading), which is not what it held before.
C4_FilesAfterCreateFiles ==
    /\ \A m \in Names :
          stamped[m] # 0 =>
             /\ \A f \in ExpectedFiles : Join(m, f) \in DOMAIN files
             /\ \A f \in EmptyFiles : files[Join(m, f)] = <<>>
             /\ files[Join(m, "README.md")] =
                   <<ExpectedHeading[m], "Created -> " \o ToString(stamped[m]),
                     "Author -> ", "", "## Description", "">>
    /\ LastIs("files") /\ Last.outcome = "succeeded" =>
          /\ stamped[Last.module] # 0
          /\ Join(Last.module, "README.md") \in DOMAIN pre.files =>
                files[Join(Last.module, "README.md")] #
                    pre.files[Join(Last.module, "README.md")]

C4_Witness ==
    /\ run >= 2
    /\ LastIs("files")
    /\ Last.module = "a"
    /\ Last.outcome = "succeeded"
    /\ Len(trace) = 6
    /\ trace[3].module = "a"
    /\ Len(start.files["a/README.md"]) = 6
    /\ files["a/LICENSE"] = <<>>

\* The tree rooted at m holds the template and nothing else.
ExactTree(m) ==
    /\ m \in dirs
    /\ {p \in dirs : IsBelow(p, m)} = {Join(m, d) : d \in ExpectedDirs}
    /\ {p \in DOMAIN files : IsBelow(p, m)} = {Join(m, f) : f \in ExpectedFiles}

EmptyAtStart == run = 1 /\ start.dirs = {} /\ DOMAIN start.files = {}

\* No module name is a path inside another module's tree.
NoNesting(names) ==
    \A j, k \in 1..Len(names) : ~IsBelow(names[j], names[k])

C6_UsageError ==
    pc = "exited" /\ Len(argv) = 1 =>
        /\ exitStatus # 0
        /\ stdout = <<"Start", "Usage: " \o argv[1] \o " <module_names>", "Exiting...">>
        /\ dirs = start.dirs
        /\ files = start.files
        /\ trace = <<>>
        /\ module_names = <<>>

C6_Witness ==
    /\ pc = "exited"
    /\ argv = <<"./scaffold">>
    /\ stdout[2] = "Usage: ./scaffold <module_names>"
    /\ LogOf(files) = <<"0\told line">>

\* C7 as stated: every invocation with at least one module name ends with
\* exit status 0.
C7_AsStated ==
    pc = "exited" /\ Len(argv) >= 2 => exitStatus = 0

\* C7, amended: the exit status is non-zero for the usage error and for an
\* invocation ended by an uncaught exception; every invocation with at least
\* one module name in which nothing is raised ends with status 0, whatever
\* its steps reported.
C7_ExitStatus ==
    pc = "exited" =>
        /\ exitStatus \in {0, 1}
        /\ exitStatus = 0 <=> (Len(argv) >= 2 /\ ~faulted)

C7_Witness ==
    /\ pc = "exited"
    /\ exitStatus = 0
    /\ \E k \in 1..Len(trace) : trace[k].outcome = "failed"

StepOrder == <<"module", "subdirs", "files">>

\* C8: the steps run in the order of the names and, for each name, in the
\* order create_module, create_subdirectories, create_files; a step that
\* returned false stops neither the steps after it nor the modules after it.
C8_StepOrder ==
    /\ pc # "start" /\ Len(argv) >= 2 => module_names = Tail(argv)
    /\ \A k \in 1..Len(trace) :
          /\ trace[k].module = module_names[((k - 1) \div 3) + 1]
          /\ trace[k].step = StepOrder[((k - 1) % 3) + 1]
          /\ k < Len(trace) => trace[k].outcome # "raised" /\ trace[k].reported
    /\ pc = "loop" =>
          /\ ~faulted
          /\ idx = (Len(trace) \div 3) + 1
          /\ step = StepOrder[(Len(trace) % 3) + 1]
    /\ pc = "return" => ~faulted /\ Len(trace) = 3 * Len(module_names)
    /\ pc = "exited" /\ ~faulted /\ Len(argv) >= 2 =>
          Len(trace) = 3 * Len(module_names)

C8_Witness ==
    /\ pc = "exited"
    /\ Len(trace) = 6
    /\ trace[1].outcome = "failed"
    /\ trace[2].outcome = "succeeded"
    /\ trace[4].outcome = "succeeded"
    /\ trace[6].outcome = "succeeded"

\* The report line of a step.
ExpectedLine(e) ==
    ToString(e.stamp) \o "\t" \o
    (CASE e.step = "module"  -> "Creating module " \o e.module
       [] e.step = "subdirs" -> "Creating subdirectories for " \o e.module
       [] e.step = "files"   -> "Creating files for " \o e.module)
    \o " has " \o e.outcome

Executed == SelectSeq(trace, LAMBDA e : e.outcome # "raised")

Reported == SelectSeq(trace, LAMBDA e : e.reported)

LinesOf(es) == [k \in 1..Len(es) |-> ExpectedLine(es[k])]

FirstBad(seq, Bad(_)) ==
    IF \E k \in 1..Len(seq) : Bad(seq[k])
    THEN CHOOSE k \in 1..Len(seq) : Bad(seq[k]) /\ \A j \in 1..(k - 1) : ~Bad(seq[j])
    ELSE Len(seq) + 1

\* makedirs cannot create p on the file system before the last step.
BlockedDir(p) ==
    p \in DOMAIN pre.files \/ \E a \in Ancestors(p) : a \in DOMAIN pre.files

\* The directories create_subdirectories has made when it raises.
DirsBeforeFault(m) ==
    LET t == [k \in 1..Len(Directories) |-> Join(m, Directories[k])]
        all == Targets(m, Directories)
        cut == FirstBad(all, BlockedDir)
    IN  UNION {{all[k]} \cup Ancestors(all[k]) : k \in 1..(cut - 1)}

\* open(p, 'w') cannot succeed on the file system before the last step.
BlockedFile(p) == p \in pre.dirs \/ ~(Ancestors(p) \subseteq pre.dirs)

\* C10: an exception raised by a file-system operation is not caught: the
\* run ends at once with no later step and no later module, the step has no
\* report line, "Finished" is not printed, and what was on disk before the
\* raise (directories, files, log lines) stays as it was.
C10_FaultAborts ==
    faulted =>
        /\ pc = "exited"
        /\ exitStatus = 1
        /\ "Finished" \notin Range(stdout)
        /\ ~Last.reported
        /\ \A k \in 1..(Len(trace) - 1) : trace[k].reported
        /\ LogOf(files) = LogOf(pre.files)
        /\ Len(LogOf(files)) = Len(LogOf(start.files)) + Len(trace) - 1
        /\ start.dirs \subseteq pre.dirs
        /\ pre.dirs \subseteq dirs
        /\ DOMAIN pre.files \subseteq DOMAIN files
        /\ \A p \in DOMAIN pre.files :
              \/ files[p] = pre.files[p]
              \/ Last.step = "files" /\ p \in {Join(Last.module, f) : f \in ExpectedFiles}
        /\ Last.outcome = "raised" /\ Last.step = "module" =>
              dirs = pre.dirs /\ files = pre.files
        /\ Last.outcome = "raised" /\ Last.step = "subdirs" =>
              /\ dirs = pre.dirs \cup DirsBeforeFault(Last.module)
              /\ files = pre.files
        /\ Last.outcome = "raised" /\ Last.step = "files" =>
              /\ dirs = pre.dirs
              /\ LET paths == [k \in 1..Len(Files) |-> Join(Last.module, Files[k])]
                     cut == FirstBad(paths, BlockedFile)
                 IN  /\ cut <= Len(Files)
                     /\ \A k \in 1..(cut - 1) : paths[k] \in DOMAIN files
                     /\ \A k \in cut..Len(Files) :
                           IF paths[k] \in DOMAIN pre.files
                           THEN files[paths[k]] = pre.files[paths[k]]
                           ELSE paths[k] \notin DOMAIN files
        /\ Last.outcome # "raised" => LogFile \in dirs

C10_Witness ==
    /\ faulted
    /\ run = 1
    /\ Len(trace) = 6
    /\ Last.step = "files"
    /\ Last.outcome = "raised"
    /\ "a/README.md" \in DOMAIN files
    /\ "a/package.json" \notin DOMAIN files
    /\ "bB/tools/deploy" \in dirs
    /\ Len(LogOf(files)) = 5

====
